---- MODULE Spec2Model ----
(***************************************************************************)
(* Model of src/code.py: the GitHub user/repository collection pipeline.   *)
(*                                                                         *)
(* Python values are records [t, n, s, d]: t is the type name, n the       *)
(* number of a bool/int, s the characters of a str (a sequence of          *)
(* one-character strings), d the mapping of a dict.  A JSON object is a    *)
(* TLA+ function from its present keys to values.                          *)
(***************************************************************************)
EXTENDS Integers, Sequences, FiniteSets, TLC

VARIABLES
    pc,               \* control location of the running code
    ret,              \* location a fetcher returns to
    env_token,        \* os.getenv('GITHUB_TOKEN'): PyNone or a str
    exit_status,      \* -1 while running, else the status of sys.exit
    headers,          \* the Authorization header value of the run
    auth_seen,        \* Authorization values carried by the requests issued
    trace,            \* HTTP exchange of the fetcher call in progress
    result,           \* value returned by the last fetcher call
    max_pages,        \* fetch_users: parameter
    page,             \* fetch_users: loop variable / fetch_repositories: params['page']
    fu_users,         \* fetch_users: users
    max_repos,        \* fetch_repositories: parameter
    repos,            \* fetch_repositories: repos
    users,            \* main: users
    idx,              \* main: idx (0 before the first iteration)
    username,         \* main: username
    details,          \* main: details
    processed_users,  \* main: processed_users
    all_repositories, \* main: all_repositories
    failed,           \* indexes whose detail fetch returned an empty mapping
    repo_calls,       \* indexes for which fetch_repositories was called
    files,            \* files written, in order: [name, rows]
    company,          \* normalizer input
    once,             \* clean_company(company)
    twice,            \* clean_company(clean_company(company))
    repo,             \* record building: the repository object
    user_data,        \* record building: the user record
    repo_data         \* record building: the repository record

vars == <<pc, ret, env_token, exit_status, headers, auth_seen, trace, result,
          max_pages, page, fu_users, max_repos, repos, users, idx, username,
          details, processed_users, all_repositories, failed, repo_calls,
          files, company, once, twice, repo, user_data, repo_data>>

fetchVars == <<trace, result, max_pages, page, fu_users, max_repos, repos>>
mainVars == <<users, idx, username, details, processed_users,
              all_repositories, failed, repo_calls, files>>
tokenVars == <<env_token, exit_status, headers, auth_seen>>
normVars == <<company, once, twice>>
recVars == <<repo, user_data, repo_data>>

----------------------------------------------------------------------------
(* Bounds of the model *)

\* longest company string drawn
MaxLen == 3
\* largest cap (max_pages, max_repos) a fetcher is called with on its own
MaxCap == 3
\* most items the search API holds in all
MaxUsers == 2
\* most repositories the listing API holds for one user
MaxRepos == 3
\* MAX_USER_PAGES, scaled down from 10 (src/code.py:19)
MAX_USER_PAGES == 2
\* MAX_REPOS_PER_USER, scaled down from 500 (src/code.py:22)
MAX_REPOS_PER_USER == 2

----------------------------------------------------------------------------
(* Python values *)

EmptyMap == [k \in {} |-> 0]
Val(t, n, s, d) == [t |-> t, n |-> n, s |-> s, d |-> d]
PyNone == Val("NoneType", 0, <<>>, EmptyMap)
PyBool(b) == Val("bool", IF b THEN 1 ELSE 0, <<>>, EmptyMap)
PyInt(n) == Val("int", n, <<>>, EmptyMap)
PyStr(s) == Val("str", 0, s, EmptyMap)
PyDict(d) == Val("dict", 0, <<>>, d)

\* bool(v)
Truthy(v) ==
    CASE v.t = "NoneType" -> FALSE
      [] v.t = "bool" -> v.n # 0
      [] v.t = "int" -> v.n # 0
      [] v.t = "str" -> v.s # <<>>
      [] v.t = "dict" -> DOMAIN v.d # {}
      [] OTHER -> TRUE

\* m.get(k, default)
Get(m, k, default) == IF k \in DOMAIN m THEN m[k] ELSE default
\* m.get(k)
GetN(m, k) == Get(m, k, PyNone)
\* m.get(k) or ''
GetOrEmpty(m, k) == IF Truthy(GetN(m, k)) THEN GetN(m, k) ELSE PyStr(<<>>)

IsSpace(c) == c = " "

RECURSIVE lstrip(_)
lstrip(s) == IF s # <<>> /\ IsSpace(Head(s)) THEN lstrip(Tail(s)) ELSE s
RECURSIVE rstrip(_)
rstrip(s) ==
    IF s # <<>> /\ IsSpace(s[Len(s)]) THEN rstrip(SubSeq(s, 1, Len(s) - 1)) ELSE s
\* s.strip()
strip(s) == rstrip(lstrip(s))

\* c.upper() and c.lower() on the characters used
UpperChar(c) == CASE c = "a" -> "A" [] c = "t" -> "T" [] OTHER -> c
LowerChar(c) == CASE c = "A" -> "a" [] c = "T" -> "t" [] c = "F" -> "f" [] OTHER -> c
upper(s) == [i \in 1..Len(s) |-> UpperChar(s[i])]
lower(s) == [i \in 1..Len(s) |-> LowerChar(s[i])]

\* str(value) of a bool
StrOfBool(v) == IF v.n # 0 THEN <<"T", "r", "u", "e">> ELSE <<"F", "a", "l", "s", "e">>

\* seq[:n]
PySlicePrefix(seq, n) ==
    IF n >= 0 THEN SubSeq(seq, 1, IF n < Len(seq) THEN n ELSE Len(seq))
    ELSE SubSeq(seq, 1, IF Len(seq) + n > 0 THEN Len(seq) + n ELSE 0)

----------------------------------------------------------------------------
(* Helper functions, src/code.py:30-62 *)

\* get_github_token: the `if not token` test that leads to sys.exit(1)
TokenMissing(token) == ~Truthy(token)
\* get_github_token: the value returned otherwise
get_github_token(token) == PyStr(strip(token.s))

\* main: headers['Authorization'] = f'token {GITHUB_TOKEN}'
AuthHeader(token) == <<"t", "o", "k", "e", "n", " ">> \o token.s

\* clean_company with the '@' test made before the trim
clean_company_trim_last(c) ==
    IF ~Truthy(c) THEN PyStr(<<>>)
    ELSE LET s1 == IF c.s # <<>> /\ Head(c.s) = "@" THEN Tail(c.s) ELSE c.s
         IN  PyStr(upper(strip(s1)))

clean_company(c) ==
    IF ~Truthy(c) THEN PyStr(<<>>)
    ELSE LET s1 == strip(c.s)
             s2 == IF s1 # <<>> /\ Head(s1) = "@" THEN Tail(s1) ELSE s1
         IN  PyStr(upper(s2))

\* handle_boolean with isinstance(value, int): every number is formatted
handle_boolean_any_int(value) ==
    IF value.t \in {"bool", "int"}
    THEN PyStr(lower(IF value.t = "bool" THEN StrOfBool(value)
                     ELSE IF value.n = 0 THEN <<"0">> ELSE <<"1">>))
    ELSE PyStr(<<>>)

handle_boolean(value) ==
    IF value.t = "bool" THEN PyStr(lower(StrOfBool(value))) ELSE PyStr(<<>>)

----------------------------------------------------------------------------
(* Record building, src/code.py:166-178 and 186-196 *)

UserKeys == {"login", "name", "company", "location", "email", "hireable", "bio",
             "public_repos", "followers", "following", "created_at"}
RepoKeys == {"full_name", "created_at", "stargazers_count", "watchers_count",
             "language", "has_projects", "has_wiki", "license"}

\* main lines 166-178: user_data
BuildUserData(d) ==
    [login |-> Get(d, "login", PyStr(<<>>)),
     name |-> GetOrEmpty(d, "name"),
     company |-> clean_company(GetN(d, "company")),
     location |-> GetOrEmpty(d, "location"),
     email |-> GetOrEmpty(d, "email"),
     hireable |-> handle_boolean(GetN(d, "hireable")),
     bio |-> GetOrEmpty(d, "bio"),
     public_repos |-> Get(d, "public_repos", PyInt(0)),
     followers |-> Get(d, "followers", PyInt(0)),
     following |-> Get(d, "following", PyInt(0)),
     created_at |-> Get(d, "created_at", PyStr(<<>>))]

\* main line 195: repo['license']['key'] raises (KeyError, TypeError)
LicenseRaises(r) ==
    LET lic == GetN(r, "license")
    IN  Truthy(lic) /\ (lic.t # "dict" \/ "key" \notin DOMAIN lic.d)

\* main line 195: repo['license']['key'] if repo.get('license') else ''
LicenseName(r) ==
    LET lic == GetN(r, "license")
    IN  IF Truthy(lic) THEN lic.d["key"] ELSE PyStr(<<>>)

\* main lines 186-196: repo_data (when line 195 does not raise)
BuildRepoData(name, r) ==
    [login |-> name,
     full_name |-> Get(r, "full_name", PyStr(<<>>)),
     created_at |-> Get(r, "created_at", PyStr(<<>>)),
     stargazers_count |-> Get(r, "stargazers_count", PyInt(0)),
     watchers_count |-> Get(r, "watchers_count", PyInt(0)),
     language |-> GetOrEmpty(r, "language"),
     has_projects |-> handle_boolean(GetN(r, "has_projects")),
     has_wiki |-> handle_boolean(GetN(r, "has_wiki")),
     license_name |-> LicenseName(r)]

----------------------------------------------------------------------------
(* The HTTP API: what a request may be answered with *)

Logins == {"a", "b"}
\* an item of the search endpoint's 'items' array
SearchItem(l) == "login" :> PyStr(<<l>>)
SearchItems == {SearchItem(l) : l \in Logins}

SeqsUpTo(S, n) == UNION {[1..k -> S] : k \in 0..n}

\* objects of the repository listing endpoint
RepoLicensed ==
    ("full_name" :> PyStr(<<"a">>)) @@ ("has_wiki" :> PyBool(TRUE))
    @@ ("license" :> PyDict("key" :> PyStr(<<"m">>)))
RepoNoKey ==
    ("full_name" :> PyStr(<<"b">>)) @@ ("license" :> PyDict("name" :> PyStr(<<"M">>)))
RepoObjects == {RepoLicensed, RepoNoKey}

\* body of the detail endpoint for a user
DetailsFor(name) ==
    ("login" :> name) @@ ("company" :> PyStr(<<"@", "a">>))
    @@ ("hireable" :> PyBool(FALSE)) @@ ("followers" :> PyInt(1))

Without(m, k) == [x \in DOMAIN m \ {k} |-> m[x]]
With(m, k, v) == [x \in DOMAIN m \cup {k} |-> IF x = k THEN v ELSE m[x]]

\* responses of GET /search/users when the API has already served `held` items
SearchResponses(held) ==
    {[status |-> 403, data |-> EmptyMap, next |-> n] : n \in BOOLEAN}
    \cup {[status |-> 200, data |-> EmptyMap, next |-> n] : n \in BOOLEAN}
    \cup {[status |-> 200, data |-> ("items" :> its), next |-> n] :
             its \in SeqsUpTo(SearchItems, MaxUsers - held), n \in BOOLEAN}

\* responses of GET /users/{username}
DetailResponses(name) ==
    {[status |-> 404, body |-> EmptyMap]}
    \cup {[status |-> 200, body |-> b] :
             b \in {EmptyMap, DetailsFor(name), Without(DetailsFor(name), "login")}}

\* responses of GET /users/{username}/repos when `held` objects were served
ListingResponses(held) ==
    {[status |-> 403, data |-> <<>>, next |-> n] : n \in BOOLEAN}
    \cup {[status |-> 200, data |-> d, next |-> n] :
             d \in SeqsUpTo(RepoObjects, MaxRepos - held), n \in BOOLEAN}

----------------------------------------------------------------------------
(* fetch_users, src/code.py:64-91 *)

\* lines 81-89 with the status test dropped: an error response does not break
UsersLoopStops_no_error_break(resp) == ~resp.next
\* lines 81-89 with the 'next' test dropped
UsersLoopStops_no_next_break(resp) == resp.status # 200

\* lines 81-83 and 88-89: the two `break`s of the page loop
UsersLoopStops(resp) == resp.status # 200 \/ ~resp.next

\* lines 84-85: data.get('items', []) of a success response
FetchedUsers(resp) ==
    IF resp.status # 200 THEN <<>> ELSE Get(resp.data, "items", <<>>)

\* one iteration of `for page in range(1, max_pages + 1)`
FetchUsersPage ==
    /\ pc = "fu_loop"
    /\ page <= max_pages
    /\ \E resp \in SearchResponses(Len(fu_users)) :
          /\ trace' = Append(trace, [page |-> page, status |-> resp.status,
                                     items |-> FetchedUsers(resp), next |-> resp.next])
          /\ fu_users' = fu_users \o FetchedUsers(resp)
          /\ IF UsersLoopStops(resp)
             THEN pc' = "fu_return" /\ page' = page
             ELSE pc' = "fu_loop" /\ page' = page + 1
    /\ auth_seen' = auth_seen \cup {headers}
    /\ UNCHANGED <<ret, env_token, exit_status, headers, result, max_pages,
                   max_repos, repos>>
    /\ UNCHANGED <<mainVars, normVars, recVars>>

\* the range is exhausted
FetchUsersExhausted ==
    /\ pc = "fu_loop"
    /\ page > max_pages
    /\ pc' = "fu_return"
    /\ UNCHANGED <<ret, tokenVars, fetchVars, mainVars, normVars, recVars>>

\* line 91: return users
FetchUsersReturn ==
    /\ pc = "fu_return"
    /\ result' = fu_users
    /\ pc' = ret
    /\ UNCHANGED <<ret, tokenVars, trace, max_pages, page, fu_users, max_repos, repos>>
    /\ UNCHANGED <<mainVars, normVars, recVars>>

----------------------------------------------------------------------------
(* fetch_repositories, src/code.py:105-132 *)

\* line 132 without the slice
ReposResult_no_slice(rs, cap) == rs

\* line 132: repos[:max_repos]
ReposResult(rs, cap) == PySlicePrefix(rs, cap)

\* lines 121-129: the three `break`s of the loop; rs is repos after line 127
ReposLoopStops(resp, rs, cap) ==
    resp.status # 200 \/ resp.data = <<>> \/ Len(rs) >= cap \/ ~resp.next

\* lines 124-127: repos after the response
ReposAfter(rs, resp) == IF resp.status # 200 THEN rs ELSE rs \o resp.data

\* one iteration of `while True`
FetchReposPage ==
    /\ pc = "fr_loop"
    /\ \E resp \in ListingResponses(Len(repos)) :
          /\ trace' = Append(trace, [page |-> page, status |-> resp.status,
                                     items |-> resp.data, next |-> resp.next])
          /\ repos' = ReposAfter(repos, resp)
          /\ IF ReposLoopStops(resp, ReposAfter(repos, resp), max_repos)
             THEN pc' = "fr_return" /\ page' = page
             ELSE pc' = "fr_loop" /\ page' = page + 1
    /\ auth_seen' = auth_seen \cup {headers}
    /\ UNCHANGED <<ret, env_token, exit_status, headers, result, max_pages,
                   fu_users, max_repos>>
    /\ UNCHANGED <<mainVars, normVars, recVars>>

\* line 132: return repos[:max_repos]
FetchReposReturn ==
    /\ pc = "fr_return"
    /\ result' = ReposResult(repos, max_repos)
    /\ pc' = ret
    /\ UNCHANGED <<ret, tokenVars, trace, max_pages, page, fu_users, max_repos, repos>>
    /\ UNCHANGED <<mainVars, normVars, recVars>>

----------------------------------------------------------------------------
(* main, src/code.py:136-217 *)

USERS_CSV == <<"u", "s", "e", "r", "s", ".", "c", "s", "v">>
REPOSITORIES_CSV ==
    <<"r", "e", "p", "o", "s", "i", "t", "o", "r", "i", "e", "s", ".", "c", "s", "v">>

\* values of the GITHUB_TOKEN environment variable
TokenInputs ==
    {PyNone, PyStr(<<>>), PyStr(<<" ">>), PyStr(<<"t">>), PyStr(<<" ", "t", " ">>)}

\* fetch_user_details, lines 99-103
fetch_user_details(resp) == IF resp.status # 200 THEN EmptyMap ELSE resp.body

\* lines 185-197: index of the first repo whose record raises, 0 when none does
FirstRaising(rs) ==
    IF \E i \in 1..Len(rs) : LicenseRaises(rs[i])
    THEN CHOOSE i \in 1..Len(rs) :
             LicenseRaises(rs[i]) /\ \A j \in 1..(i - 1) : ~LicenseRaises(rs[j])
    ELSE 0

\* lines 185-197: the records of the first n repos
RepoRecords(name, rs, n) == [i \in 1..n |-> BuildRepoData(name, rs[i])]

\* lines 138-147: load the token, build the headers, call fetch_users
MainStart ==
    /\ pc = "main"
    /\ IF TokenMissing(env_token)
       THEN /\ exit_status' = 1
            /\ pc' = "exited"
            /\ UNCHANGED <<ret, headers, max_pages, page, fu_users, trace>>
       ELSE /\ headers' = AuthHeader(get_github_token(env_token))
            /\ max_pages' = MAX_USER_PAGES
            /\ page' = 1
            /\ fu_users' = <<>>
            /\ trace' = <<>>
            /\ ret' = "main_users"
            /\ pc' = "fu_loop"
            /\ UNCHANGED exit_status
    /\ UNCHANGED <<env_token, auth_seen, result, max_repos, repos>>
    /\ UNCHANGED <<mainVars, normVars, recVars>>

\* lines 147-153: users = fetch_users(...); the two tables start empty
MainUsersFetched ==
    /\ pc = "main_users"
    /\ users' = result
    /\ processed_users' = <<>>
    /\ all_repositories' = <<>>
    /\ idx' = 0
    /\ pc' = "main_loop"
    /\ trace' = <<>> /\ result' = <<>> /\ fu_users' = <<>> /\ page' = 1
    /\ UNCHANGED <<ret, tokenVars, max_pages, max_repos, repos, username, details,
                   failed, repo_calls, files>>
    /\ UNCHANGED <<normVars, recVars>>

\* lines 155-182: the next user: details, skip or user record, call fetch_repositories
MainNextUser ==
    /\ pc = "main_loop"
    /\ idx < Len(users)
    /\ LET i == idx + 1
           name == GetN(users[i], "login")
       IN  \E resp \in DetailResponses(name) :
              LET det == fetch_user_details(resp)
              IN  /\ idx' = i
                  /\ username' = name
                  /\ details' = det
                  /\ IF DOMAIN det = {}
                     THEN /\ failed' = failed \cup {i}
                          /\ pc' = "main_loop"
                          /\ UNCHANGED <<processed_users, repo_calls, max_repos,
                                         repos, page, trace, ret>>
                     ELSE /\ processed_users' =
                                 Append(processed_users, BuildUserData(det))
                          /\ repo_calls' = repo_calls \cup {i}
                          /\ max_repos' = MAX_REPOS_PER_USER
                          /\ repos' = <<>>
                          /\ page' = 1
                          /\ trace' = <<>>
                          /\ ret' = "main_repos"
                          /\ pc' = "fr_loop"
                          /\ UNCHANGED failed
    /\ auth_seen' = auth_seen \cup {headers}
    /\ UNCHANGED <<env_token, exit_status, headers, result, max_pages, fu_users,
                   users, all_repositories, files>>
    /\ UNCHANGED <<normVars, recVars>>

\* lines 182-197: repos = fetch_repositories(...); one record per repo
MainBuildRepos ==
    /\ pc = "main_repos"
    /\ LET k == FirstRaising(result)
       IN  IF k = 0
           THEN /\ all_repositories' =
                       all_repositories \o RepoRecords(username, result, Len(result))
                /\ pc' = "main_loop"
           ELSE /\ all_repositories' =
                       all_repositories \o RepoRecords(username, result, k - 1)
                /\ pc' = "crashed"
    /\ trace' = <<>> /\ result' = <<>> /\ repos' = <<>> /\ page' = 1
    /\ UNCHANGED <<ret, tokenVars, max_pages, fu_users, max_repos, users, idx,
                   username, details, processed_users, failed, repo_calls, files>>
    /\ UNCHANGED <<normVars, recVars>>

\* lines 203-217: both tables are written
MainExport ==
    /\ pc = "main_loop"
    /\ idx = Len(users)
    /\ files' = files \o <<[name |-> USERS_CSV, rows |-> processed_users],
                           [name |-> REPOSITORIES_CSV, rows |-> all_repositories]>>
    /\ pc' = "done"
    /\ UNCHANGED <<ret, tokenVars, fetchVars, users, idx, username, details,
                   processed_users, all_repositories, failed, repo_calls>>
    /\ UNCHANGED <<normVars, recVars>>

----------------------------------------------------------------------------
(* The run of main *)

Idle ==
    /\ ret = "none" /\ exit_status = -1 /\ headers = <<>> /\ auth_seen = {}
    /\ trace = <<>> /\ result = <<>> /\ max_pages = 0 /\ page = 1
    /\ fu_users = <<>> /\ max_repos = 0 /\ repos = <<>>
    /\ users = <<>> /\ idx = 0 /\ username = PyNone /\ details = EmptyMap
    /\ processed_users = <<>> /\ all_repositories = <<>>
    /\ failed = {} /\ repo_calls = {} /\ files = <<>>
    /\ company = PyNone /\ once = PyNone /\ twice = PyNone
    /\ repo = EmptyMap /\ user_data = EmptyMap /\ repo_data = EmptyMap

Init ==
    /\ pc = "main"
    /\ env_token \in TokenInputs
    /\ Idle

Next ==
    \/ MainStart
    \/ FetchUsersPage
    \/ FetchUsersExhausted
    \/ FetchUsersReturn
    \/ MainUsersFetched
    \/ MainNextUser
    \/ FetchReposPage
    \/ FetchReposReturn
    \/ MainBuildRepos
    \/ MainExport

Spec == Init /\ [][Next]_vars

\* the interpreter runs the single thread until it exits, raises or returns
LiveSpec == Init /\ [][Next]_vars /\ WF_vars(Next)

----------------------------------------------------------------------------
(* A fetcher called on its own, with any cap *)

InitFetch ==
    /\ pc \in {"fu_loop", "fr_loop"}
    /\ env_token = PyStr(<<"t">>)
    /\ ret = (IF pc = "fu_loop" THEN "users_returned" ELSE "repos_returned")
    /\ exit_status = -1
    /\ headers = AuthHeader(get_github_token(env_token))
    /\ auth_seen = {}
    /\ trace = <<>> /\ result = <<>> /\ page = 1
    /\ fu_users = <<>> /\ repos = <<>>
    /\ max_pages \in (IF pc = "fu_loop" THEN 0..MaxCap ELSE {0})
    /\ max_repos \in (IF pc = "fr_loop" THEN 0..MaxCap ELSE {0})
    /\ users = <<>> /\ idx = 0 /\ username = PyNone /\ details = EmptyMap
    /\ processed_users = <<>> /\ all_repositories = <<>>
    /\ failed = {} /\ repo_calls = {} /\ files = <<>>
    /\ company = PyNone /\ once = PyNone /\ twice = PyNone
    /\ repo = EmptyMap /\ user_data = EmptyMap /\ repo_data = EmptyMap

NextFetch ==
    \/ FetchUsersPage
    \/ FetchUsersExhausted
    \/ FetchUsersReturn
    \/ FetchReposPage
    \/ FetchReposReturn

SpecFetch == InitFetch /\ [][NextFetch]_vars

----------------------------------------------------------------------------
(* clean_company applied to a company string, and to its own result *)

Alphabet == {"@", " ", "a", "A"}
CompanyInputs == {PyNone} \cup {PyStr(s) : s \in SeqsUpTo(Alphabet, MaxLen)}

CleanOnce ==
    /\ pc = "clean_0"
    /\ once' = clean_company(company)
    /\ pc' = "clean_1"
    /\ UNCHANGED <<ret, tokenVars, fetchVars, mainVars, recVars, company, twice>>

CleanTwice ==
    /\ pc = "clean_1"
    /\ twice' = clean_company(once)
    /\ pc' = "clean_2"
    /\ UNCHANGED <<ret, tokenVars, fetchVars, mainVars, recVars, company, once>>

InitCompany ==
    /\ pc = "clean_0"
    /\ env_token = PyNone
    /\ company \in CompanyInputs
    /\ ret = "none" /\ exit_status = -1 /\ headers = <<>> /\ auth_seen = {}
    /\ trace = <<>> /\ result = <<>> /\ max_pages = 0 /\ page = 1
    /\ fu_users = <<>> /\ max_repos = 0 /\ repos = <<>>
    /\ users = <<>> /\ idx = 0 /\ username = PyNone /\ details = EmptyMap
    /\ processed_users = <<>> /\ all_repositories = <<>>
    /\ failed = {} /\ repo_calls = {} /\ files = <<>>
    /\ once = PyNone /\ twice = PyNone
    /\ repo = EmptyMap /\ user_data = EmptyMap /\ repo_data = EmptyMap

NextCompany == CleanOnce \/ CleanTwice

SpecCompany == InitCompany /\ [][NextCompany]_vars

----------------------------------------------------------------------------
(* The two records built from one detail object and one repository object *)

True4 == <<"t", "r", "u", "e">>
BoolInputs ==
    {PyBool(TRUE), PyBool(FALSE), PyNone, PyInt(0), PyInt(1), PyStr(True4)}

DetailBase ==
    [login |-> PyStr(<<"a">>), name |-> PyStr(<<"A">>),
     company |-> PyStr(<<"@", "a">>), location |-> PyStr(<<"t">>),
     email |-> PyStr(<<"a", "@", "a">>), hireable |-> PyBool(TRUE),
     bio |-> PyStr(<<"a">>), public_repos |-> PyInt(2), followers |-> PyInt(3),
     following |-> PyInt(1), created_at |-> PyStr(<<"2", "0">>)]

RepoBase ==
    [full_name |-> PyStr(<<"a", "/", "a">>), created_at |-> PyStr(<<"2", "0">>),
     stargazers_count |-> PyInt(1), watchers_count |-> PyInt(1),
     language |-> PyStr(<<"t">>), has_projects |-> PyBool(TRUE),
     has_wiki |-> PyBool(FALSE), license |-> PyDict("key" :> PyStr(<<"m">>))]

\* one field absent, one field null, or another value where a boolean is read
DetailSamples ==
    {DetailBase}
    \cup {Without(DetailBase, k) : k \in UserKeys}
    \cup {With(DetailBase, k, PyNone) : k \in UserKeys}
    \cup {With(DetailBase, "hireable", v) : v \in BoolInputs}

LicenseInputs ==
    {PyDict(EmptyMap), PyDict("key" :> PyNone), PyDict("name" :> PyStr(<<"M">>))}

RepoSamples ==
    {RepoBase}
    \cup {Without(RepoBase, k) : k \in RepoKeys}
    \cup {With(RepoBase, k, PyNone) : k \in RepoKeys}
    \cup {With(RepoBase, k, v) : k \in {"has_projects", "has_wiki"}, v \in BoolInputs}
    \cup {With(RepoBase, "license", v) : v \in LicenseInputs}

\* lines 166-178 on `details`
BuildUser ==
    /\ pc = "rec_user"
    /\ user_data' = BuildUserData(details)
    /\ pc' = "rec_repo"
    /\ UNCHANGED <<ret, tokenVars, fetchVars, mainVars, normVars, repo, repo_data>>

\* lines 186-196 on `repo`
BuildRepo ==
    /\ pc = "rec_repo"
    /\ IF LicenseRaises(repo)
       THEN pc' = "rec_raised" /\ UNCHANGED repo_data
       ELSE pc' = "rec_done" /\ repo_data' = BuildRepoData(username, repo)
    /\ UNCHANGED <<ret, tokenVars, fetchVars, mainVars, normVars, repo, user_data>>

InitRecords ==
    /\ pc = "rec_user"
    /\ env_token = PyNone
    /\ details \in DetailSamples
    /\ repo \in RepoSamples
    /\ username = PyStr(<<"a">>)
    /\ ret = "none" /\ exit_status = -1 /\ headers = <<>> /\ auth_seen = {}
    /\ trace = <<>> /\ result = <<>> /\ max_pages = 0 /\ page = 1
    /\ fu_users = <<>> /\ max_repos = 0 /\ repos = <<>>
    /\ users = <<>> /\ idx = 0
    /\ processed_users = <<>> /\ all_repositories = <<>>
    /\ failed = {} /\ repo_calls = {} /\ files = <<>>
    /\ company = PyNone /\ once = PyNone /\ twice = PyNone
    /\ user_data = EmptyMap /\ repo_data = EmptyMap

NextRecords == BuildUser \/ BuildRepo

SpecRecords == InitRecords /\ [][NextRecords]_vars

----------------------------------------------------------------------------
(* Properties *)

\* the items of the first n exchanges of the trace, in order
RECURSIVE ConcatItems(_, _)
ConcatItems(tr, n) ==
    IF n = 0 THEN <<>> ELSE ConcatItems(tr, n - 1) \o tr[n].items

InFetchUsers == pc \in {"fu_loop", "fu_return", "users_returned"}
LastExchange == trace[Len(trace)]

\* C1: when the detail fetch of a search result fails, fetch_repositories is
\* not called for that entry and the repository table written at the end
\* holds no record with that login, even when the login occurs more than once
\* in the search results.
C1_FailedUserHasNoRepos ==
    pc = "done" =>
        \A i \in failed :
            /\ i \notin repo_calls
            /\ \A k \in 1..Len(files[2].rows) :
                  files[2].rows[k].login # GetN(users[i], "login")

\* C2: at every point of the per-user loop and at export, every record of
\* all_repositories has the login of some record of processed_users.
C2_ReferentialIntegrity ==
    \A k \in 1..Len(all_repositories) :
        \E j \in 1..Len(processed_users) :
            processed_users[j].login = all_repositories[k].login

\* C3: in both paginated fetchers, when the first non-success response comes
\* on page k, no request follows it, the loop is left, and the value returned
\* is the in-order concatenation of the items of pages 1..k-1.
C3_ErrorKeepsEarlierPages ==
    LET errs == {k \in 1..Len(trace) : trace[k].status # 200}
    IN  errs # {} =>
            LET k == CHOOSE e \in errs : \A f \in errs : e <= f
            IN  /\ k = Len(trace)
                /\ trace[k].page = k
                /\ pc \in {"fu_return", "fr_return", "users_returned", "repos_returned"}
                /\ pc \in {"users_returned", "repos_returned"} =>
                       result = ConcatItems(trace, k - 1)

C3_Witness ==
    /\ pc = "repos_returned"
    /\ Len(trace) >= 2
    /\ LastExchange.status # 200
    /\ result # <<>>

\* C4: fetch_repositories returns at most max_repos items, and exactly
\* max_repos when the pages received hold that many or more; fetch_users
\* issues at most max_pages requests and returns only items of those pages.
C4_CapRespected ==
    /\ pc = "repos_returned" =>
           /\ Len(result) <= max_repos
           /\ Len(ConcatItems(trace, Len(trace))) >= max_repos =>
                  Len(result) = max_repos
    /\ InFetchUsers => Len(trace) <= max_pages
    /\ pc = "users_returned" => result = ConcatItems(trace, Len(trace))

C4_Witness ==
    /\ pc = "repos_returned"
    /\ max_repos >= 1
    /\ Len(ConcatItems(trace, Len(trace))) > max_repos
    /\ Len(result) = max_repos

\* C5: when GITHUB_TOKEN is unset or empty after trimming, the process exits
\* with a non-zero status before any request is issued and before any file
\* is written; otherwise every request carries the trimmed token.
C5_NoTokenNoActivity ==
    IF env_token = PyNone \/ strip(env_token.s) = <<>>
    THEN /\ pc \in {"main", "exited"}
         /\ auth_seen = {}
         /\ files = <<>>
         /\ pc = "exited" => exit_status > 0
    ELSE auth_seen \subseteq {AuthHeader(PyStr(strip(env_token.s)))}

\* C6: once a credential is present, whatever the responses, the run reaches
\* the export step and has written users.csv and repositories.csv, each once.
C6_RunReachesExport ==
    (pc = "fu_loop" /\ ret = "main_users" /\ strip(env_token.s) # <<>>)
        ~> (/\ pc = "done"
            /\ Len(files) = 2
            /\ files[1].name = USERS_CSV
            /\ files[2].name = REPOSITORIES_CSV)

\* the trimmed company has no '@' or whitespace directly after a leading '@'
SingleAt(c) ==
    c.t = "str" =>
        LET s == strip(c.s)
        IN  ~(Len(s) >= 2 /\ s[1] = "@" /\ (s[2] = "@" \/ IsSpace(s[2])))

\* C7 as stated: clean_company is idempotent on every company string.
C7_Idempotent == pc = "clean_2" => twice = once

\* C7 as amended: clean_company is idempotent on every company value whose
\* trimmed form has no '@' or whitespace directly after a leading '@'.
C7_IdempotentOnSingleAt == (pc = "clean_2" /\ SingleAt(company)) => twice = once

C7_Witness ==
    /\ pc = "clean_2"
    /\ company = PyStr(<<" ", "@", "a">>)
    /\ once = PyStr(<<"A">>)
    /\ twice = once

False5 == <<"f", "a", "l", "s", "e">>
TriState(v, out) ==
    out = (IF v = PyBool(TRUE) THEN PyStr(True4)
           ELSE IF v = PyBool(FALSE) THEN PyStr(False5)
           ELSE PyStr(<<>>))

\* C8: handle_boolean gives 'true' for True, 'false' for False and '' for
\* every other input, so hireable, has_projects and has_wiki of a record are
\* always one of the three.
C8_BooleanTriState ==
    /\ pc \in {"rec_repo", "rec_done", "rec_raised"} =>
           TriState(GetN(details, "hireable"), user_data.hireable)
    /\ pc = "rec_done" =>
           /\ TriState(GetN(repo, "has_projects"), repo_data.has_projects)
           /\ TriState(GetN(repo, "has_wiki"), repo_data.has_wiki)

C8_Witness ==
    /\ pc = "rec_done"
    /\ GetN(details, "hireable") = PyInt(1)
    /\ user_data.hireable = PyStr(<<>>)
    /\ repo_data.has_projects = PyStr(True4)
    /\ repo_data.has_wiki = PyStr(False5)

UserStrFields == {"login", "name", "company", "location", "email", "hireable",
                  "bio", "created_at"}
UserIntFields == {"public_repos", "followers", "following"}
RepoStrFields == {"login", "full_name", "created_at", "language", "has_projects",
                  "has_wiki", "license_name"}
RepoIntFields == {"stargazers_count", "watchers_count"}

\* C9: building a record never raises, and with any field missing or null
\* every field of the record is a str or an int, never None; license_name is
\* '' when no license is present.
C9_RecordsNeverErrorNorNull ==
    /\ pc # "rec_raised"
    /\ pc \in {"rec_repo", "rec_done"} =>
           /\ \A f \in UserStrFields : user_data[f].t = "str"
           /\ \A f \in UserIntFields : user_data[f].t = "int"
    /\ pc = "rec_done" =>
           /\ \A f \in RepoStrFields : repo_data[f].t = "str"
           /\ \A f \in RepoIntFields : repo_data[f].t = "int"
           /\ ~Truthy(GetN(repo, "license")) => repo_data.license_name = PyStr(<<>>)

\* C10: fetch_users requests pages 1, 2, ... in order, accumulates the items
\* of the successful pages in order, and stops exactly at the first of: page
\* cap reached, non-success response, success response without a next link.
C10_PagesInOrder ==
    InFetchUsers =>
        /\ \A k \in 1..Len(trace) : trace[k].page = k
        /\ Len(trace) <= max_pages
        /\ \A k \in 1..(Len(trace) - 1) : trace[k].status = 200 /\ trace[k].next
        /\ fu_users = ConcatItems(trace, Len(trace))
        /\ pc = "users_returned" => result = ConcatItems(trace, Len(trace))
        /\ (pc = "fu_loop" /\ page <= max_pages) =>
               (page = Len(trace) + 1
                /\ (trace # <<>> => LastExchange.status = 200 /\ LastExchange.next))
        /\ pc \in {"fu_return", "users_returned"} =>
               \/ Len(trace) = max_pages
               \/ (trace # <<>> /\ (LastExchange.status # 200 \/ ~LastExchange.next))

C10_Witness ==
    /\ pc = "users_returned"
    /\ Len(trace) = 2
    /\ max_pages > 2
    /\ LastExchange.status = 200 /\ ~LastExchange.next
    /\ Len(trace[1].items) = 1 /\ Len(trace[2].items) = 1
    /\ trace[1].items # trace[2].items
    /\ Len(result) = 2

====
